---- MODULE Spec2Model ----
(***************************************************************************)
(* A model of app.py: the /analyze and /compare request handlers, the      *)
(* metric pipeline of fetch_stock_data and the normalisation of            *)
(* compare_stocks.                                                         *)
(*                                                                         *)
(* Numbers.  The program computes with IEEE doubles.  The model computes   *)
(* with exact values:                                                      *)
(*   [k |-> "num", n, d]       the rational n/d (d > 0, lowest terms)      *)
(*   [k |-> "inf", s]          +infinity (s = 1) or -infinity (s = -1)     *)
(*   [k |-> "nan"]             NaN                                         *)
(*   [k |-> "root", s, n, d]   s * sqrt(n/d), s in {-1, 1}, n/d > 0: a     *)
(*                             standard deviation and what is scaled by it *)
(*   [k |-> "sum", p, r]       the rational p plus the root r              *)
(*   [k |-> "round", nd, of]   round(of, nd) of a root or a sum, kept as a *)
(*                             term                                        *)
(* NaN and the infinities follow IEEE 754, as numpy and pandas do: x/0 is  *)
(* an infinity for x # 0 and NaN for x = 0, NaN propagates, and every      *)
(* comparison with NaN is false.  Rounding error of finite doubles is not  *)
(* modelled.                                                               *)
(***************************************************************************)
EXTENDS Integers, Sequences, FiniteSets, TLC

\* ------------------------------------------------------------------------
\* Exact arithmetic
\* ------------------------------------------------------------------------

RECURSIVE GCD(_, _)
GCD(a, b) == IF b = 0 THEN a ELSE GCD(b, a % b)

Reduce(n, d, g) == [k |-> "num", n |-> n \div g, d |-> d \div g]

\* The rational n/d in lowest terms, d # 0.
Rat(n, d) ==
  IF d < 0 THEN Reduce(-n, -d, GCD(IF n < 0 THEN -n ELSE n, -d))
  ELSE Reduce(n, d, GCD(IF n < 0 THEN -n ELSE n, d))

Num(i) == [k |-> "num", n |-> i, d |-> 1]

NaN == [k |-> "nan"]

Inf(sg) == [k |-> "inf", s |-> sg]

IsNaN(x) == x.k = "nan"

\* x + y of doubles
Add(x, y) ==
  IF x.k = "num" /\ y.k = "num" THEN Rat(x.n * y.d + y.n * x.d, x.d * y.d)
  ELSE IF x.k = "nan" \/ y.k = "nan" THEN NaN
  ELSE IF x.k = "inf" /\ y.k = "inf" THEN (IF x.s = y.s THEN x ELSE NaN)
  ELSE IF x.k = "inf" THEN x ELSE y

Neg(x) ==
  IF x.k = "num" THEN [k |-> "num", n |-> -x.n, d |-> x.d]
  ELSE IF x.k = "inf" THEN Inf(-x.s) ELSE x

Sub(x, y) == Add(x, Neg(y))

\* x * y of doubles
Mul(x, y) ==
  IF x.k = "num" /\ y.k = "num" THEN Rat(x.n * y.n, x.d * y.d)
  ELSE IF x.k = "nan" \/ y.k = "nan" THEN NaN
  ELSE IF x.k = "inf" /\ y.k = "inf" THEN Inf(x.s * y.s)
  ELSE IF x.k = "inf"
  THEN (IF y.n = 0 THEN NaN ELSE Inf(IF y.n < 0 THEN -x.s ELSE x.s))
  ELSE (IF x.n = 0 THEN NaN ELSE Inf(IF x.n < 0 THEN -y.s ELSE y.s))

\* x / y of doubles, as numpy divides: no exception for a zero divisor
Div(x, y) ==
  IF x.k = "num" /\ y.k = "num"
  THEN (IF y.n # 0 THEN Rat(x.n * y.d, x.d * y.n)
        ELSE IF x.n = 0 THEN NaN ELSE Inf(IF x.n < 0 THEN -1 ELSE 1))
  ELSE IF x.k = "nan" \/ y.k = "nan" THEN NaN
  ELSE IF x.k = "inf" /\ y.k = "inf" THEN NaN
  ELSE IF x.k = "inf" THEN Inf(IF y.n < 0 THEN -x.s ELSE x.s)
  ELSE Num(0)

\* a < b for rationals
RLess(a, b) == a.n * b.d < b.n * a.d

\* s * sqrt(n/d); a zero radicand is the rational 0.
Root(sg, n, d) ==
  IF n = 0 THEN Num(0) ELSE [k |-> "root", s |-> sg, n |-> n, d |-> d]

\* numpy.sqrt of a rational or NaN
Sqrt(x) ==
  IF x.k = "num" THEN (IF x.n < 0 THEN NaN ELSE Root(1, x.n, x.d)) ELSE x

\* The sign and the square of a rational or a root.
SignOfRoot(x) ==
  IF x.k = "root" THEN x.s ELSE IF x.n < 0 THEN -1 ELSE IF x.n > 0 THEN 1 ELSE 0

SquareOfRoot(x) == IF x.k = "root" THEN Rat(x.n, x.d) ELSE Rat(x.n * x.n, x.d * x.d)

RootOf(sg, q) == Root(sg, q.n, q.d)

\* x * y where x and y are rationals, roots or NaN
MulRoot(x, y) ==
  IF x.k = "nan" \/ y.k = "nan" THEN NaN
  ELSE RootOf(SignOfRoot(x) * SignOfRoot(y),
              Mul(SquareOfRoot(x), SquareOfRoot(y)))

\* x / y where x is a rational or NaN and y a root
DivRoot(x, y) ==
  IF x.k = "nan" \/ y.k = "nan" THEN NaN
  ELSE RootOf(SignOfRoot(x) * SignOfRoot(y),
              Div(SquareOfRoot(x), SquareOfRoot(y)))

\* p + r where p is a rational or NaN and r a rational, a root or NaN
AddRoot(p, r) ==
  IF p.k = "nan" \/ r.k = "nan" THEN NaN
  ELSE IF r.k = "num" THEN Add(p, r)
  ELSE [k |-> "sum", p |-> p, r |-> r]

\* x > 0 as Python compares doubles: False for NaN.
Gt0(x) ==
  IF x.k = "num" THEN x.n > 0
  ELSE IF x.k \in {"inf", "root"} THEN x.s > 0 ELSE FALSE

\* bool(x) of a double: False for 0 only (NaN is truthy).
Truthy(x) == ~(x.k = "num" /\ x.n = 0)

\* x <= y for rationals
Leq(x, y) == ~RLess(y, x)

RECURSIVE Pow10(_)
Pow10(e) == IF e = 0 THEN 1 ELSE 10 * Pow10(e - 1)

\* The integer nearest to n/d, ties to the even one, d > 0.
RoundHalfEven(n, d, fl) ==
  IF 2 * (n - fl * d) > d \/ (2 * (n - fl * d) = d /\ fl % 2 = 1)
  THEN fl + 1 ELSE fl

\* round(x, nd): NaN and the infinities round to themselves, a rational to
\* the nearest multiple of 10^-nd, ties to the even one; the rounding of a
\* root or a sum is kept as a term.
round(x, nd) ==
  IF x.k = "num"
  THEN Rat(RoundHalfEven(x.n * Pow10(nd), x.d, (x.n * Pow10(nd)) \div x.d),
           Pow10(nd))
  ELSE IF x.k \in {"nan", "inf"} THEN x
  ELSE [k |-> "round", nd |-> nd, of |-> x]

\* int(x) of a rational: truncation toward zero.
int(x) == IF x.n >= 0 THEN x.n \div x.d ELSE -((-x.n) \div x.d)

\* ------------------------------------------------------------------------
\* pandas: a Series is a sequence of values, a DataFrame a function from
\* column names to Series of one length
\* ------------------------------------------------------------------------

None == [k |-> "none"]

RECURSIVE Sum(_)
Sum(s) == IF Len(s) = 0 THEN Num(0) ELSE Add(Sum(Tail(s)), Head(s))

Window(s, i, w) == SubSeq(s, i - w + 1, i)

\* Series.mean(): NaN for an empty Series.
mean(s) == IF Len(s) = 0 THEN NaN ELSE Div(Sum(s), Num(Len(s)))

\* Series.var() with pandas' default ddof=1: NaN for fewer than 2 elements.
Square(x) == Mul(x, x)

SquaredDeviations(s, m) == [i \in 1..Len(s) |-> Square(Sub(s[i], m))]

var(s) ==
  IF Len(s) < 2 THEN NaN
  ELSE Div(Sum(SquaredDeviations(s, mean(s))), Num(Len(s) - 1))

\* Series.std(): the square root of var().
std(s) == Sqrt(var(s))

\* Series.pct_change(): s / s.shift(1) - 1, NaN at the first index.
pct_change(s) ==
  [i \in 1..Len(s) |-> IF i = 1 THEN NaN ELSE Sub(Div(s[i], s[i - 1]), Num(1))]

\* Series.diff(): s - s.shift(1), NaN at the first index.
diff(s) == [i \in 1..Len(s) |-> IF i = 1 THEN NaN ELSE Sub(s[i], s[i - 1])]

dropna(s) == SelectSeq(s, LAMBDA x : ~IsNaN(x))

\* Series.clip(lower=0) and Series.clip(upper=0): NaN stays NaN.
clip_lower0(s) ==
  [i \in 1..Len(s) |-> IF s[i].k = "num" /\ s[i].n < 0 THEN Num(0) ELSE s[i]]

clip_upper0(s) ==
  [i \in 1..Len(s) |-> IF s[i].k = "num" /\ s[i].n > 0 THEN Num(0) ELSE s[i]]

neg(s) == [i \in 1..Len(s) |-> Neg(s[i])]

\* Series.rolling(w).mean(): min_periods is w, so the value is NaN until w
\* observations are in the window and whenever the window holds a NaN.
rolling_mean(s, w) ==
  [i \in 1..Len(s) |-> IF i < w THEN NaN ELSE mean(Window(s, i, w))]

\* Series.rolling(w).std(), ddof=1.
rolling_std(s, w) ==
  [i \in 1..Len(s) |-> IF i < w THEN NaN ELSE std(Window(s, i, w))]

RECURSIVE SeqMax(_)
SeqMax(s) ==
  IF Len(s) = 1 THEN s[1]
  ELSE LET m == SeqMax(Tail(s)) IN IF RLess(m, s[1]) THEN s[1] ELSE m

RECURSIVE SeqMin(_)
SeqMin(s) ==
  IF Len(s) = 1 THEN s[1]
  ELSE LET m == SeqMin(Tail(s)) IN IF RLess(s[1], m) THEN s[1] ELSE m

iloc_last(s) == s[Len(s)]

\* hist[name] = col: the column is added to (or replaced in) the frame.
setitem(df, name, col) ==
  [c \in DOMAIN df \cup {name} |-> IF c = name THEN col ELSE df[c]]

\* hist.empty, len(hist), hist.index
empty(df) == Len(df.Close) = 0

index(df) == [i \in 1..Len(df.Close) |-> i]

\* ------------------------------------------------------------------------
\* Strings: a request string is a sequence of one-character strings
\* ------------------------------------------------------------------------

IsSpace(c) == c = " "

UpperChar(c) == CASE c = "a" -> "A" [] c = "b" -> "B" [] OTHER -> c

\* str.upper()
upper(t) == [i \in 1..Len(t) |-> UpperChar(t[i])]

RECURSIVE lstrip(_)
lstrip(t) == IF Len(t) > 0 /\ IsSpace(Head(t)) THEN lstrip(Tail(t)) ELSE t

RECURSIVE rstrip(_)
rstrip(t) ==
  IF Len(t) > 0 /\ IsSpace(t[Len(t)]) THEN rstrip(SubSeq(t, 1, Len(t) - 1))
  ELSE t

\* str.strip()
strip(t) == rstrip(lstrip(t))

\* str.split(","): the pieces between the commas, at least one piece.
RECURSIVE split(_)
split(t) ==
  IF \A i \in 1..Len(t) : t[i] # "," THEN <<t>>
  ELSE LET j == CHOOSE i \in 1..Len(t) :
                  t[i] = "," /\ \A h \in 1..(i - 1) : t[h] # ","
       IN  <<SubSeq(t, 1, j - 1)>> \o split(SubSeq(t, j + 1, Len(t)))

\* A Python str held in a result: a literal or a metadata string, or the
\* characters of a ticker.
Text(s) == [k |-> "str", v |-> s]

Chars(t) == [k |-> "chars", v |-> t]

\* ------------------------------------------------------------------------
\* fetch_stock_data: the metric pipeline
\* ------------------------------------------------------------------------

TradingDays == 252

MA50Window == 50

MA200Window == 200

RSIWindow == 14

BBWindow == 20

BBWidth == 2

\* dict.get(key, default) on the metadata; info is [keys, val].
get(info, key, default) == IF key \in info.keys THEN info.val[key] ELSE default

\* x or 0
or0(x) == IF x.k = "none" \/ ~Truthy(x) THEN Num(0) ELSE x

Percent(x) == Mul(x, Num(100))

\* lines 24-27
current_price(df) == iloc_last(df.Close)

prev_price(df) ==
  IF Len(df.Close) > 1 THEN df.Close[Len(df.Close) - 1] ELSE current_price(df)

price_change(df) == Sub(current_price(df), prev_price(df))

price_change_pct(df) ==
  IF Truthy(prev_price(df))
  THEN Percent(Div(price_change(df), prev_price(df)))
  ELSE Num(0)

\* line 31
returns_of(df) == dropna(df.Daily_Return)

\* line 34: annualised volatility in percent
volatility(returns) ==
  MulRoot(MulRoot(std(returns), Sqrt(Num(TradingDays))), Num(100))

\* line 35
sharpe_of(m, sd) ==
  IF Gt0(sd)
  THEN DivRoot(Mul(m, Num(TradingDays)), MulRoot(sd, Sqrt(Num(TradingDays))))
  ELSE Num(0)

sharpe(returns) == sharpe_of(mean(returns), std(returns))

\* lines 42-45: the RSI series
rsi_of(gain, loss) ==
  [i \in 1..Len(gain) |->
     Sub(Num(100), Div(Num(100), Add(Num(1), Div(gain[i], loss[i]))))]

rsi_of_delta(delta) ==
  rsi_of(rolling_mean(clip_lower0(delta), RSIWindow),
         rolling_mean(neg(clip_upper0(delta)), RSIWindow))

rsi_series(close) == rsi_of_delta(diff(close))

\* line 46
rsi(df) == iloc_last(rsi_series(df.Close))

\* A variant of line 30 that also rewrites the Close column in place: C10
\* tells it from the code.
with_returns_rescaling_close(df) ==
  setitem(setitem(df, "Close", [i \in 1..Len(df.Close) |-> Mul(df.Close[i], Num(100))]),
          "Daily_Return", pct_change(df.Close))

\* lines 30, 38-39, 49-52: the columns the function adds to hist
with_returns(df) == setitem(df, "Daily_Return", pct_change(df.Close))

with_moving_averages(df) ==
  setitem(setitem(df, "MA50", rolling_mean(df.Close, MA50Window)),
          "MA200", rolling_mean(df.Close, MA200Window))

with_bands(df, mid, sd) ==
  setitem(setitem(setitem(setitem(df, "BB_Mid", mid), "BB_Std", sd),
                  "BB_Upper",
                  [i \in 1..Len(mid) |->
                     AddRoot(mid[i], MulRoot(Num(BBWidth), sd[i]))]),
          "BB_Lower",
          [i \in 1..Len(mid) |->
             AddRoot(mid[i], MulRoot(Num(-BBWidth), sd[i]))])

with_bollinger(df) ==
  with_bands(df, rolling_mean(df.Close, BBWindow),
             rolling_std(df.Close, BBWindow))

\* hist as it is when the function returns
computed_frame(df) == with_bollinger(with_moving_averages(with_returns(df)))

\* lines 59-90: the traces of the candlestick figure
chart(df) ==
  <<[name |-> "Price", x |-> index(df), open |-> df.Open, high |-> df.High,
     low |-> df.Low, close |-> df.Close],
    [name |-> "MA 50", x |-> index(df), y |-> df.MA50],
    [name |-> "MA 200", x |-> index(df), y |-> df.MA200],
    [name |-> "BB Upper", x |-> index(df), y |-> df.BB_Upper],
    [name |-> "BB Lower", x |-> index(df), y |-> df.BB_Lower]>>

\* lines 93-97: the volume bars and their colours
vol_chart(df) ==
  [name |-> "Volume", x |-> index(df), y |-> df.Volume,
   marker_color |-> [i \in 1..Len(df.Close) |->
                       IF Leq(df.Open[i], df.Close[i]) THEN "#26a69a"
                       ELSE "#ef5350"]]

\* lines 108-132: the dict the function returns, from the finished frame
snapshot(ticker, df, info) ==
  [ticker |-> Chars(upper(ticker)),
   name |-> get(info, "longName", Chars(upper(ticker))),
   sector |-> get(info, "sector", Text("N/A")),
   industry |-> get(info, "industry", Text("N/A")),
   current_price |-> round(current_price(df), 2),
   price_change |-> round(price_change(df), 2),
   price_change_pct |-> round(price_change_pct(df), 2),
   market_cap |-> get(info, "marketCap", None),
   pe_ratio |-> get(info, "trailingPE", None),
   forward_pe |-> get(info, "forwardPE", None),
   pb_ratio |-> get(info, "priceToBook", None),
   dividend_yield |->
     round(Mul(or0(get(info, "dividendYield", None)), Num(100)), 2),
   eps |-> get(info, "trailingEps", None),
   beta |-> get(info, "beta", None),
   w52_high |-> round(SeqMax(df.High), 2),
   w52_low |-> round(SeqMin(df.Low), 2),
   volatility |-> round(volatility(returns_of(df)), 2),
   sharpe_ratio |-> round(sharpe(returns_of(df)), 3),
   rsi |-> round(rsi(df), 1),
   volume |-> int(iloc_last(df.Volume)),
   avg_volume |-> int(mean(df.Volume)),
   chart_json |-> chart(df),
   vol_chart_json |-> vol_chart(df)]

\* ------------------------------------------------------------------------
\* compare_stocks: the normalised series of one ticker
\* ------------------------------------------------------------------------

\* A variant of norm that reports the absolute change, in hundredths: it
\* keeps norm[0] = 0 and C7 still tells it from the code.
absolute_change(close) ==
  [i \in 1..Len(close) |-> Percent(Sub(close[i], close[1]))]

\* line 143: percentage change from the series' own first close
norm(close) ==
  [i \in 1..Len(close) |-> Percent(Sub(Div(close[i], close[1]), Num(1)))]

\* line 144
scatter(t, df) ==
  [x |-> index(df), y |-> norm(df.Close), name |-> Chars(upper(t)),
   mode |-> "lines"]

\* A variant of the except branch of compare_stocks that leaves the loop:
\* C4 tells it from the code.
break_after_exception(tks, i) == Len(tks) + 1

\* line 146: an exception inside the loop body goes on with the next ticker
next_after_exception(tks, i) == i + 1

\* line 142: so does an empty history
next_after_empty(tks, i) == i + 1

\* A variant of compare_stocks that raises when no ticker produced a trace:
\* C8 tells it from the code.
compare_stocks_or_raise(trs) ==
  IF trs = <<>>
  THEN [k |-> "raise", msg |-> "no data for any ticker"]
  ELSE [k |-> "dict", chart_json |-> trs]

\* lines 148-160: the figure of the collected traces, as the returned dict
compare_stocks_return(trs) == [k |-> "dict", chart_json |-> trs]

\* ------------------------------------------------------------------------
\* The routes
\* ------------------------------------------------------------------------

BadRequest == 400

NotFound == 404

ServerError == 500

Ok == 200

Absent == [k |-> "absent"]

DefaultPeriod == Text("1y")

\* data.get(key): None for a missing key and for a JSON null
get_or_none(v) == IF v.k = "absent" THEN None ELSE v

\* data.get(key, default)
get_default(v, default) == IF v.k = "absent" THEN default ELSE v

\* A variant of analyze_ticker without strip(): C2 tells it from the code.
analyze_ticker_unstripped(d) ==
  LET v == get_or_none(d.ticker)
      t == IF v.k = "none" \/ v.v = <<>> THEN <<>> ELSE v.v
  IN  upper(t)

\* line 175: (data.get("ticker") or "").strip().upper()
analyze_ticker(d) ==
  LET v == get_or_none(d.ticker)
      t == IF v.k = "none" \/ v.v = <<>> THEN <<>> ELSE v.v
  IN  upper(strip(t))

\* lines 176 and 197
request_period(d) == get_default(d.period, DefaultPeriod)

\* line 196, for a str raw
compare_tickers(raw) ==
  LET parts == split(raw)
      kept == SelectSeq(parts, LAMBDA t : strip(t) # <<>>)
  IN  [i \in 1..Len(kept) |-> upper(strip(kept[i]))]

\* A variant of the except branch of analyze() that answers 404: C3 tells
\* it from the code.
exception_as_not_found(e) ==
  [status |-> NotFound, body |-> [error |-> Text("Ticker not found or no data available")]]

\* lines 183-184
analyze_exception_response(e) ==
  [status |-> ServerError, body |-> [error |-> Text(e.msg)]]

\* lines 186-189
analyze_result_response(t, result) ==
  IF result = None
  THEN [status |-> NotFound, body |-> [error |-> Text("No data found"), ticker |-> Chars(t)]]
  ELSE [status |-> Ok, body |-> result]

\* lines 202-207
compare_response(r) ==
  IF r.k = "raise"
  THEN [status |-> ServerError, body |-> [error |-> Text(r.msg)]]
  ELSE [status |-> Ok, body |-> r]

\* A variant of no_data that never sees an empty frame: C1 tells it from the
\* code, since the empty history then runs into the indicators.
no_data_ignored(df) == df = None

\* line 18
no_data(df) == empty(df)

\* lines 24-46 raise on a frame that is missing or holds no row
\* (hist["Close"].iloc[-1]); analyze() catches it at line 183.
pipeline_raises(df) == df = None \/ empty(df)

\* ------------------------------------------------------------------------
\* State
\* ------------------------------------------------------------------------

Workers == {1, 2}

VARIABLES
  pc,       \* per worker: "idle", "history", "info", "loop" or "done"
  route,    \* the route of the worker's request: "none", "analyze", "compare"
  data,     \* request.get_json() of the request
  ticker,   \* analyze: ticker
  period,   \* period
  tickers,  \* compare: tickers
  idx,      \* compare_stocks: position of the loop in tickers
  hist,     \* fetch_stock_data: hist, per call
  traces,   \* compare_stocks: traces
  replies,  \* what the data source answered to the request's calls, in order
  status,   \* the HTTP status of the response, 0 before it
  body      \* the JSON body of the response

vars ==
  <<pc, route, data, ticker, period, tickers, idx, hist, traces, replies,
    status, body>>

\* A variant of locals_of in which every request uses the same frame, as a
\* module-level variable would: C9 tells it from the code.
shared_locals(w) == 1

\* The locals of a call of fetch_stock_data belong to that call.
locals_of(w) == w

Init ==
  /\ pc = [w \in Workers |-> "idle"]
  /\ route = [w \in Workers |-> "none"]
  /\ data = [w \in Workers |-> None]
  /\ ticker = [w \in Workers |-> <<>>]
  /\ period = [w \in Workers |-> None]
  /\ tickers = [w \in Workers |-> <<>>]
  /\ idx = [w \in Workers |-> 0]
  /\ hist = [w \in Workers |-> None]
  /\ traces = [w \in Workers |-> <<>>]
  /\ replies = [w \in Workers |-> <<>>]
  /\ status = [w \in Workers |-> 0]
  /\ body = [w \in Workers |-> None]

Respond(w, r) ==
  /\ pc' = [pc EXCEPT ![w] = "done"]
  /\ status' = [status EXCEPT ![w] = r.status]
  /\ body' = [body EXCEPT ![w] = r.body]

\* A free worker takes a request.
Accept(w, rt, d) ==
  /\ pc[w] = "idle"
  /\ route' = [route EXCEPT ![w] = rt]
  /\ data' = [data EXCEPT ![w] = d]
  /\ UNCHANGED <<hist, traces, replies>>

\* The response has been sent: the request and the locals of its calls are
\* gone and the worker is free again.
Deliver(w) ==
  /\ pc[w] = "done"
  /\ pc' = [pc EXCEPT ![w] = "idle"]
  /\ route' = [route EXCEPT ![w] = "none"]
  /\ data' = [data EXCEPT ![w] = None]
  /\ ticker' = [ticker EXCEPT ![w] = <<>>]
  /\ period' = [period EXCEPT ![w] = None]
  /\ tickers' = [tickers EXCEPT ![w] = <<>>]
  /\ idx' = [idx EXCEPT ![w] = 0]
  /\ hist' = [hist EXCEPT ![locals_of(w)] = None]
  /\ traces' = [traces EXCEPT ![w] = <<>>]
  /\ replies' = [replies EXCEPT ![w] = <<>>]
  /\ status' = [status EXCEPT ![w] = 0]
  /\ body' = [body EXCEPT ![w] = None]

\* analyze(), lines 174-182: up to the call of stock.history
AnalyzeBegin(w, d) ==
  /\ Accept(w, "analyze", d)
  /\ ticker' = [ticker EXCEPT ![w] = analyze_ticker(d)]
  /\ period' = [period EXCEPT ![w] = request_period(d)]
  /\ UNCHANGED <<tickers, idx>>
  /\ IF analyze_ticker(d) = <<>>
     THEN Respond(w, [status |-> BadRequest,
                      body |-> [error |-> Text("No ticker provided")]])
     ELSE /\ pc' = [pc EXCEPT ![w] = "history"]
          /\ UNCHANGED <<status, body>>

\* fetch_stock_data, lines 16-21: stock.history answers
HistoryReturns(w, out) ==
  /\ pc[w] = "history"
  /\ replies' = [replies EXCEPT ![w] = Append(@, [call |-> "history", out |-> out])]
  /\ UNCHANGED <<route, data, ticker, period, tickers, idx, traces>>
  /\ IF out.k = "raise"
     THEN /\ Respond(w, analyze_exception_response(out))
          /\ UNCHANGED hist
     ELSE /\ hist' = [hist EXCEPT ![locals_of(w)] = out.df]
          /\ IF no_data(out.df)
             THEN Respond(w, analyze_result_response(ticker[w], None))
             ELSE /\ pc' = [pc EXCEPT ![w] = "info"]
                  /\ UNCHANGED <<status, body>>

\* line 21: stock.info or {}
or_empty(out) ==
  IF out.k = "none" \/ out.keys = {}
  THEN [k |-> "dict", keys |-> {}, val |-> <<>>]
  ELSE out

\* fetch_stock_data, lines 24-132, on the frame df it leaves behind
Compute(w, df, info) ==
  /\ hist' = [hist EXCEPT ![locals_of(w)] = df]
  /\ Respond(w, analyze_result_response(ticker[w],
                                        snapshot(ticker[w], df, info)))

\* fetch_stock_data, lines 21-132, and analyze(), lines 183-189: stock.info
\* answers, the metrics are computed and the response is made
InfoReturns(w, out) ==
  /\ pc[w] = "info"
  /\ replies' = [replies EXCEPT ![w] = Append(@, [call |-> "info", out |-> out])]
  /\ UNCHANGED <<route, data, ticker, period, tickers, idx, traces>>
  /\ IF out.k = "raise"
     THEN /\ Respond(w, analyze_exception_response(out))
          /\ UNCHANGED hist
     ELSE IF pipeline_raises(hist[locals_of(w)])
     THEN /\ Respond(w, analyze_exception_response([k |-> "raise", msg |-> "IndexError"]))
          /\ UNCHANGED hist
     ELSE Compute(w, computed_frame(hist[locals_of(w)]), or_empty(out))

\* compare(), lines 199-203, with the parsed tickers
CompareEnter(w, tks) ==
  /\ tickers' = [tickers EXCEPT ![w] = tks]
  /\ IF tks = <<>>
     THEN /\ Respond(w, [status |-> BadRequest,
                         body |-> [error |-> Text("No tickers provided")]])
          /\ idx' = [idx EXCEPT ![w] = 0]
     ELSE /\ pc' = [pc EXCEPT ![w] = "loop"]
          /\ idx' = [idx EXCEPT ![w] = 1]
          /\ UNCHANGED <<status, body>>

\* compare(), lines 194-203: up to the first call of history
CompareBegin(w, d) ==
  /\ Accept(w, "compare", d)
  /\ UNCHANGED ticker
  /\ IF get_default(d.tickers, Chars(<<>>)).k = "none"
     THEN \* None.split: an AttributeError outside the try, Flask answers 500
          /\ Respond(w, [status |-> ServerError, body |-> [error |-> Text("Internal Server Error")]])
          /\ tickers' = [tickers EXCEPT ![w] = <<>>]
          /\ idx' = [idx EXCEPT ![w] = 0]
          /\ period' = [period EXCEPT ![w] = None]
     ELSE /\ period' = [period EXCEPT ![w] = request_period(d)]
          /\ CompareEnter(w, compare_tickers(get_default(d.tickers, Chars(<<>>)).v))

\* The loop goes on with position nxt and the traces trs; past the last
\* ticker the figure is built and compare() responds.
LoopStep(w, trs, nxt) ==
  /\ traces' = [traces EXCEPT ![w] = trs]
  /\ idx' = [idx EXCEPT ![w] = nxt]
  /\ IF nxt > Len(tickers[w])
     THEN Respond(w, compare_response(compare_stocks_return(trs)))
     ELSE UNCHANGED <<pc, status, body>>

\* compare_stocks, lines 138-160, and compare(), lines 204-207: history
\* answers for tickers[idx]; after the last ticker the response is made
CompareHistoryReturns(w, out) ==
  /\ pc[w] = "loop"
  /\ replies' = [replies EXCEPT ![w] = Append(@, [call |-> "history", out |-> out])]
  /\ UNCHANGED <<route, data, ticker, period, tickers, hist>>
  /\ LoopStep(w,
              IF out.k = "raise" \/ empty(out.df) THEN traces[w]
              ELSE Append(traces[w], scatter(tickers[w][idx[w]], out.df)),
              IF out.k = "raise" THEN next_after_exception(tickers[w], idx[w])
              ELSE IF empty(out.df) THEN next_after_empty(tickers[w], idx[w])
              ELSE idx[w] + 1)

\* ------------------------------------------------------------------------
\* Inputs: the requests and the answers of the data source
\* ------------------------------------------------------------------------

MaxBars == 2

MaxTickerLen == 2

MaxRawLen == 3

MaxShort == 3

MaxExtra == 2

Prices == {10, 20, 40}

Seqs(S, n) == UNION {[1..m -> S] : m \in 0..n}

Max2(a, b) == IF a < b THEN b ELSE a

Min2(a, b) == IF a < b THEN a ELSE b

\* The bars of a price history with the closes cs: a bar opens at the close
\* before it, its high and low are the larger and the smaller of its open
\* and close, and the volume grows from bar to bar.
FrameOf(cs) ==
  LET op(i) == IF i = 1 THEN cs[1] ELSE cs[i - 1]
  IN  [Open |-> [i \in 1..Len(cs) |-> Num(op(i))],
       High |-> [i \in 1..Len(cs) |-> Num(Max2(op(i), cs[i]))],
       Low |-> [i \in 1..Len(cs) |-> Num(Min2(op(i), cs[i]))],
       Close |-> [i \in 1..Len(cs) |-> Num(cs[i])],
       Volume |-> [i \in 1..Len(cs) |-> Num(1001 * i)]]

Raise == [k |-> "raise", msg |-> "upstream failure"]

Frame(cs) == [k |-> "frame", df |-> FrameOf(cs)]

\* Every history of at most MaxBars bars, the empty one included.
SmallHistories == {Frame(cs) : cs \in Seqs(Prices, MaxBars)}

\* Closes that hold at most three levels: p1 up to bar b1, p2 up to bar b2,
\* p3 after it.
Steps(len) ==
  {[i \in 1..len |-> IF i <= b[1] THEN p[1] ELSE IF i <= b[2] THEN p[2] ELSE p[3]] :
     b \in {c \in (1..len) \X (1..len) : c[1] <= c[2]},
     p \in Prices \X Prices \X Prices}

\* Histories of 1..MaxShort bars and of RSIWindow+1..RSIWindow+MaxExtra bars.
CalcLens == (1..MaxShort) \cup ((RSIWindow + 1)..(RSIWindow + MaxExtra))

CalcHistories == {Frame(cs) : cs \in UNION {Steps(len) : len \in CalcLens}}

\* Two short histories with different metrics, and the empty one.
PairHistories == {Frame(<<>>), Frame(<<10, 20>>), Frame(<<20, 10>>)}

InfoKeys ==
  {"longName", "sector", "industry", "marketCap", "trailingPE", "forwardPE",
   "priceToBook", "dividendYield", "trailingEps", "beta"}

FullInfoVal ==
  [longName |-> Text("Acme Corp"), sector |-> Text("Technology"),
   industry |-> Text("Software"), marketCap |-> Num(1000000),
   trailingPE |-> Rat(31, 2), forwardPE |-> Num(14), priceToBook |-> Rat(7, 2),
   dividendYield |-> Rat(123, 10000), trailingEps |-> Rat(129, 100),
   beta |-> Rat(11, 10)]

InfoDict(ks) == [k |-> "dict", keys |-> ks, val |-> FullInfoVal]

\* stock.info: None, or a dict that holds all, some or none of the fields.
InfoAnswers ==
  {None, InfoDict(InfoKeys), InfoDict({"longName", "dividendYield"}), InfoDict({})}

TickerStrings == {Chars(t) : t \in Seqs({"a", " "}, MaxTickerLen)}

RawStrings == {Chars(t) : t \in Seqs({"a", "b", ",", " "}, MaxRawLen)}

Periods == {Absent, Text("1mo")}

AnalyzeRequests ==
  [ticker : {Absent, None} \cup TickerStrings, period : Periods]

CompareRequests ==
  [tickers : {Absent, None} \cup RawStrings, period : {Absent}]

\* ------------------------------------------------------------------------
\* Specifications
\* ------------------------------------------------------------------------

\* One worker serves /analyze and /compare requests one after the other.
Next ==
  \/ \E d \in AnalyzeRequests : AnalyzeBegin(1, d)
  \/ \E out \in {Raise} \cup SmallHistories : HistoryReturns(1, out)
  \/ \E out \in {Raise} \cup InfoAnswers : InfoReturns(1, out)
  \/ \E d \in CompareRequests : CompareBegin(1, d)
  \/ \E out \in {Raise} \cup SmallHistories : CompareHistoryReturns(1, out)
  \/ Deliver(1)

Spec == Init /\ [][Next]_vars

\* Two workers serve /analyze requests at the same time.
PairRequests == [ticker : {Chars(<<"a">>), Chars(<<"b">>)}, period : Periods]

NextPair ==
  \E w \in Workers :
    \/ \E d \in PairRequests : AnalyzeBegin(w, d)
    \/ \E out \in {Raise} \cup PairHistories : HistoryReturns(w, out)
    \/ \E out \in {Raise, None, InfoDict(InfoKeys)} : InfoReturns(w, out)
    \/ Deliver(w)

SpecPair == Init /\ [][NextPair]_vars

\* One worker serves /analyze requests on the longer histories.
CalcRequests == [ticker : {Chars(<<"a">>)}, period : {Absent}]

NextCalc ==
  \/ \E d \in CalcRequests : AnalyzeBegin(1, d)
  \/ \E out \in CalcHistories : HistoryReturns(1, out)
  \/ \E out \in {None, InfoDict(InfoKeys)} : InfoReturns(1, out)
  \/ Deliver(1)

SpecCalc == Init /\ [][NextCalc]_vars

\* ------------------------------------------------------------------------
\* Properties
\* ------------------------------------------------------------------------

FetchedColumns == {"Open", "High", "Low", "Close", "Volume"}

DerivedColumns ==
  {"Daily_Return", "MA50", "MA200", "BB_Mid", "BB_Std", "BB_Upper", "BB_Lower"}

Calls(w, c) == Len(SelectSeq(replies[w], LAMBDA r : r.call = c))

Failed(r) == r.out.k = "raise"

NoBars(r) == r.out.k = "frame" /\ empty(r.out.df)

HasBars(r) == r.out.k = "frame" /\ ~empty(r.out.df)

IsError(b) == "error" \in DOMAIN b

\* The history the request of worker w was answered with.
Fetched(w) == replies[w][1].out.df

AnalyzedOk(w) == route[w] = "analyze" /\ pc[w] = "done" /\ status[w] = Ok

Compared(w) == route[w] = "compare" /\ pc[w] = "done" /\ tickers[w] # <<>>

\* C1: an /analyze request whose history call succeeds with zero bars ends
\* in 404 with an error body, whatever the ticker and the period: not in
\* 500, not in 200, stock.info is not asked, and no column is computed on
\* the empty frame.
C1_EmptyHistoryIsNotFound ==
  \A w \in Workers :
    (route[w] = "analyze" /\ replies[w] # <<>> /\ NoBars(replies[w][1])) =>
      /\ pc[w] = "done"
      /\ status[w] = NotFound
      /\ IsError(body[w])
      /\ Len(replies[w]) = 1
      /\ hist[w] = Fetched(w)
      /\ DOMAIN hist[w] = FetchedColumns

C1_Witness ==
  \E w \in Workers :
    /\ route[w] = "analyze" /\ replies[w] # <<>> /\ NoBars(replies[w][1])
    /\ status[w] = NotFound
    /\ period[w] = Text("1mo")
    /\ Len(ticker[w]) = 2

\* A ticker that is missing, null, empty or only whitespace.
BlankTicker(v) ==
  v.k \in {"absent", "none"} \/ (v.k = "chars" /\ \A i \in 1..Len(v.v) : v.v[i] = " ")

\* A ticker list that is missing, empty or only separators and whitespace.
BlankList(v) ==
  v.k = "absent" \/ (v.k = "chars" /\ \A i \in 1..Len(v.v) : v.v[i] \in {" ", ","})

\* C2: /analyze with a missing, null, empty or whitespace-only ticker and
\* /compare with a missing or empty ticker string, or one of separators and
\* whitespace only, end in 400 at once: the data source is never called and
\* nothing is computed.
C2_BlankInputIsBadRequest ==
  \A w \in Workers :
    ((route[w] = "analyze" /\ BlankTicker(data[w].ticker))
       \/ (route[w] = "compare" /\ BlankList(data[w].tickers))) =>
      /\ pc[w] = "done"
      /\ status[w] = BadRequest
      /\ IsError(body[w])
      /\ replies[w] = <<>>
      /\ hist[w] = None
      /\ traces[w] = <<>>

C2_Witness ==
  \E w \in Workers :
    /\ route[w] = "analyze"
    /\ data[w].ticker.k = "chars" /\ Len(data[w].ticker.v) = 2
    /\ BlankTicker(data[w].ticker)
    /\ status[w] = BadRequest

\* C3: when a call of the data source raises during /analyze, the request
\* ends in 500 with an error body (not 404, not 200) and no call follows
\* the failed one; a request that gets past validation calls history
\* exactly once, and no request calls history or info twice.
C3_FetchFailureIsServerError ==
  \A w \in Workers :
    route[w] = "analyze" =>
      /\ Calls(w, "history") <= 1
      /\ Calls(w, "info") <= 1
      /\ (pc[w] = "done" /\ status[w] # BadRequest) => Calls(w, "history") = 1
      /\ \A i \in 1..Len(replies[w]) :
           Failed(replies[w][i]) =>
             /\ i = Len(replies[w])
             /\ pc[w] = "done"
             /\ status[w] = ServerError
             /\ IsError(body[w])

C3_Witness ==
  \E w \in Workers :
    /\ route[w] = "analyze"
    /\ Len(replies[w]) = 1 /\ Failed(replies[w][1])
    /\ status[w] = ServerError

\* The positions of the tickers whose history came back with bars.
RECURSIVE Included(_, _)
Included(reps, i) ==
  IF i > Len(reps) THEN <<>>
  ELSE (IF HasBars(reps[i]) THEN <<i>> ELSE <<>>) \o Included(reps, i + 1)

\* Trace j of the chart is the normalised series of the j-th ticker that
\* came back with bars.
TracesMatch(w, cj, inc) ==
  /\ Len(cj) = Len(inc)
  /\ \A j \in 1..Len(inc) :
       /\ cj[j].name = Chars(tickers[w][inc[j]])
       /\ Len(cj[j].y) = Len(replies[w][inc[j]].out.df.Close)
       /\ \A i \in 1..Len(cj[j].y) :
            Mul(Add(Div(cj[j].y[i], Num(100)), Num(1)),
                replies[w][inc[j]].out.df.Close[1])
              = replies[w][inc[j]].out.df.Close[i]

\* C4: a /compare request with tickers asks the history of every ticker,
\* whatever the answers before it, and its chart holds one normalised
\* series for each ticker that came back with bars and for no other, in
\* the order of the request.
C4_ComparisonSkipsFailedTickers ==
  \A w \in Workers :
    /\ (route[w] = "compare" /\ pc[w] = "loop") =>
         /\ Len(replies[w]) = idx[w] - 1
         /\ idx[w] <= Len(tickers[w])
         /\ Len(traces[w]) = Len(Included(replies[w], 1))
    /\ Compared(w) =>
         /\ Len(replies[w]) = Len(tickers[w])
         /\ status[w] = Ok
         /\ TracesMatch(w, body[w].chart_json, Included(replies[w], 1))

C4_Witness ==
  \E w \in Workers :
    /\ Compared(w)
    /\ Len(tickers[w]) = 2 /\ tickers[w][1] # tickers[w][2]
    /\ Failed(replies[w][1]) /\ HasBars(replies[w][2])
    /\ Len(body[w].chart_json) = 1
    /\ body[w].chart_json[1].name = Chars(tickers[w][2])

\* The daily returns of the history worker w was answered with.
FetchedReturns(w) == dropna(pct_change(Fetched(w).Close))

ZeroVariance(rs) == \A i \in 1..Len(rs) : rs[i] = rs[1]

\* C5: a successful /analyze request whose return series has at most one
\* element, or equal elements only, reports volatility 0 and Sharpe ratio 0.
C5_DegenerateRiskIsZero ==
  \A w \in Workers :
    (AnalyzedOk(w)
       /\ (Len(FetchedReturns(w)) <= 1 \/ ZeroVariance(FetchedReturns(w)))) =>
      /\ body[w].volatility = Num(0)
      /\ body[w].sharpe_ratio = Num(0)

\* What line 34 and line 35 do in the case of C5: the Sharpe ratio is 0;
\* the volatility is 0 with two or more equal returns and NaN with fewer
\* than two returns, where returns.std() is NaN.
DegenerateRiskAsComputed ==
  \A w \in Workers :
    (AnalyzedOk(w)
       /\ (Len(FetchedReturns(w)) <= 1 \/ ZeroVariance(FetchedReturns(w)))) =>
      /\ body[w].sharpe_ratio = Num(0)
      /\ Len(FetchedReturns(w)) >= 2 => body[w].volatility = Num(0)
      /\ Len(FetchedReturns(w)) <= 1 => IsNaN(body[w].volatility)

\* No close of the last RSIWindow days is below the close of the day before.
NoTrailingLoss(close) ==
  /\ Len(close) > RSIWindow
  /\ \A i \in (Len(close) - RSIWindow + 1)..Len(close) : Leq(close[i - 1], close[i])

Flat(close, from) == \A i \in from..Len(close) : close[i] = close[from]

\* C6: a successful /analyze request whose last RSIWindow daily changes hold
\* no loss reports RSI 100, the history of equal closes included.
C6_NoLossRsiIsHundred ==
  \A w \in Workers :
    (AnalyzedOk(w) /\ NoTrailingLoss(Fetched(w).Close)) => body[w].rsi = Num(100)

\* What lines 42-46 do in the case of C6: RSI is 100 when the window holds
\* a gain, and NaN when every close of the window equals the one before it
\* (gain 0 / loss 0).
NoLossRsiAsComputed ==
  \A w \in Workers :
    (AnalyzedOk(w) /\ NoTrailingLoss(Fetched(w).Close)) =>
      IF Flat(Fetched(w).Close, Len(Fetched(w).Close) - RSIWindow)
      THEN IsNaN(body[w].rsi)
      ELSE body[w].rsi = Num(100)

\* The closes behind trace j of the chart of worker w.
Closes(w, j) == replies[w][Included(replies[w], 1)[j]].out.df.Close

Proportional(a, b) ==
  /\ Len(a) = Len(b)
  /\ \A i \in 1..Len(a) : Mul(a[i], b[1]) = Mul(b[i], a[1])

\* C7: every series of a comparison chart is norm[i] = (close[i] / close[0]
\* - 1) * 100 of the closes fetched for its ticker; it starts at 0, and two
\* tickers whose closes differ by a constant factor get the same series.
C7_NormalisedFromFirstClose ==
  \A w \in Workers :
    Compared(w) =>
      /\ \A j \in 1..Len(body[w].chart_json) :
           /\ body[w].chart_json[j].y[1] = Num(0)
           /\ \A i \in 1..Len(Closes(w, j)) :
                body[w].chart_json[j].y[i]
                  = Div(Mul(Sub(Closes(w, j)[i], Closes(w, j)[1]), Num(100)),
                        Closes(w, j)[1])
      /\ \A j, k \in 1..Len(body[w].chart_json) :
           Proportional(Closes(w, j), Closes(w, k)) =>
             body[w].chart_json[j].y = body[w].chart_json[k].y

C7_Witness ==
  \E w \in Workers :
    /\ Compared(w)
    /\ Len(body[w].chart_json) = 2
    /\ Len(Closes(w, 1)) = 2
    /\ Closes(w, 1) # Closes(w, 2)
    /\ Proportional(Closes(w, 1), Closes(w, 2))
    /\ body[w].chart_json[1].y = body[w].chart_json[2].y
    /\ body[w].chart_json[1].y[2] = Num(100)

AllFailed(w) == \A i \in 1..Len(replies[w]) : ~HasBars(replies[w][i])

\* C8 as stated: a /compare request with tickers ends in an error exactly
\* when every ticker failed.
C8_ErrorIffAllFailed ==
  \A w \in Workers : Compared(w) => (status[w] # Ok <=> AllFailed(w))

\* C8, amended: a /compare request with tickers always ends in 200 with a
\* chart; one failing ticker never fails it, and when every ticker failed
\* (raised or came back empty) the chart is empty instead of an error.
C8_AllFailedIsEmptyChart ==
  \A w \in Workers :
    Compared(w) =>
      /\ status[w] = Ok
      /\ ~IsError(body[w])
      /\ AllFailed(w) <=> body[w].chart_json = <<>>

C8_Witness ==
  \E w \in Workers :
    /\ Compared(w)
    /\ Len(tickers[w]) = 2
    /\ Failed(replies[w][1]) /\ NoBars(replies[w][2])
    /\ status[w] = Ok
    /\ body[w].chart_json = <<>>

\* C9: two /analyze requests for the same ticker that are answered with the
\* same history and the same info end with the same status and the same
\* body, whatever the other request was doing meanwhile.
C9_SameInputsSameOutput ==
  \A v, w \in Workers :
    (/\ route[v] = "analyze" /\ pc[v] = "done"
     /\ route[w] = "analyze" /\ pc[w] = "done"
     /\ ticker[v] = ticker[w]
     /\ replies[v] = replies[w]) =>
      /\ status[v] = status[w]
      /\ body[v] = body[w]

C9_Witness ==
  /\ AnalyzedOk(1) /\ AnalyzedOk(2)
  /\ ticker[1] = ticker[2]
  /\ replies[1] = replies[2]
  /\ period[1] # period[2]
  /\ body[1] = body[2]

====
